---- MODULE Spec2Model ----
(***************************************************************************)
(* Model of biblioteca/app/models.py: the stored rows of Libro, Ejemplar,  *)
(* Prestamo and Configuracion, the save() overrides of Ejemplar and        *)
(* Prestamo, and the post_save / post_delete receivers cant_ejemp_disp and *)
(* act_prestamo that maintain Libro.cant_ej and Libro.remanente.           *)
(*                                                                         *)
(* Spec      : the Ejemplar and Prestamo operations; every operation (save *)
(*             or delete with its receiver) is one atomic step of a single *)
(*             caller.                                                     *)
(* SpecFechas: the Prestamo operations over several days, with the         *)
(*             Configuracion row edited in between.                        *)
(* SpecConc  : several writers create and delete Ejemplar rows of one      *)
(*             Libro, one database query per step, each writer working on  *)
(*             its own in-memory Libro object.                             *)
(* SpecLibro : the class body of Libro and the validation and storing of   *)
(*             a Libro built from a submitted ISBN string.                 *)
(***************************************************************************)
EXTENDS Integers, Sequences, FiniteSets, TLC

\* ---------------------------------------------------------------- bounds
MaxEjemplares == 3
MaxPrestamos == 1
MaxCount == 3
MaxDay == 2
NWriters == 2
MaxInitCopies == 2
MaxIsbnLen == 14

\* two Libro rows: the one an operation is about, and another one
Libros == {1, 2}
Writers == 1..NWriters
Dias == 1..MaxDay
\* Configuracion.plazo_max_devolucion, default=3
PlazoDefault == 3
\* values the Configuracion row is edited to
Plazos == {PlazoDefault, PlazoDefault + 1}

\* Python None for a nullable foreign key (ids handed out by the store start at 1)
None == 0
Bibliotecarios == {1}

VARIABLES
    libro,                  \* Libro rows: [Libros -> [cant_ej, remanente]]
    ejemplares,             \* Ejemplar rows: set of [id, libro, nro_ejemplar]
    prestamos,              \* Prestamo rows: set of [id, ejemplar, recibio, fecha_max_dev, fecha_dev]
    nextEjemplar,           \* next automatic primary key of Ejemplar
    nextPrestamo,           \* next automatic primary key of Prestamo
    plazo_max_devolucion,   \* the Configuracion row
    hoy,                    \* date.today()
    pc,                     \* SpecConc: position of each writer
    mem,                    \* SpecConc: each writer's in-memory Libro object
    wej,                    \* SpecConc: each writer's in-memory Ejemplar object
    creados,                \* SpecConc: number of Ejemplar rows inserted by writers
    borrados,               \* SpecConc: number of Ejemplar rows deleted by writers
    rechazados,             \* SpecConc: number of inserts rejected by unique_together
    inicial,                \* SpecConc: cant_ej and remanente stored before the writers start
    isbn_in,                \* SpecLibro: the ISBN string submitted
    libro_rows,             \* SpecLibro: primary keys of the stored Libro rows
    resultado               \* SpecLibro: outcome of the submission

dbvars == <<libro, ejemplares, prestamos, nextEjemplar, nextPrestamo,
            plazo_max_devolucion, hoy>>
concvars == <<pc, mem, wej, creados, borrados, rechazados, inicial>>
librovars == <<isbn_in, libro_rows, resultado>>
vars == <<libro, ejemplares, prestamos, nextEjemplar, nextPrestamo,
          plazo_max_devolucion, hoy,
          pc, mem, wej, creados, borrados, rechazados, inicial,
          isbn_in, libro_rows, resultado>>

\* ------------------------------------------------------------- helpers
SetMax(S) == CHOOSE x \in S : \A y \in S : y <= x

\* libro.ejemplar_set
ejemplar_set(rows, b) == {e \in rows : e.libro = b}

\* the aggregate taken over the Ejemplar rows of every Libro
AggregateMaxAll(rows, b) ==
    IF rows = {} THEN 0 ELSE SetMax({e.nro_ejemplar : e \in rows})

\* libro.ejemplar_set.aggregate(Max("nro_ejemplar", default=0))['nro_ejemplar__max']
AggregateMax(rows, b) ==
    IF ejemplar_set(rows, b) = {} THEN 0
    ELSE SetMax({e.nro_ejemplar : e \in ejemplar_set(rows, b)})

\* Ejemplar.save for an instance without pk: the number it assigns
Ejemplar_nro(rows, b) == AggregateMax(rows, b) + 1

\* unique_together = ('libro', 'nro_ejemplar')
UniqueTogether(rows, b, n) ==
    ~ \E e \in rows : e.libro = b /\ e.nro_ejemplar = n

\* the receiver with the increment of remanente left out
cant_ejemp_disp_half(creado, is_post_delete, l) ==
    IF creado THEN [l EXCEPT !.cant_ej = @ + 1]
    ELSE IF is_post_delete THEN [cant_ej |-> l.cant_ej - 1, remanente |-> l.remanente - 1]
    ELSE l

\* cant_ejemp_disp: the Libro object after the receiver ran on it
cant_ejemp_disp(creado, is_post_delete, l) ==
    IF creado THEN [cant_ej |-> l.cant_ej + 1, remanente |-> l.remanente + 1]
    ELSE IF is_post_delete THEN [cant_ej |-> l.cant_ej - 1, remanente |-> l.remanente - 1]
    ELSE l

\* Prestamo.save without the test "if not self.fecha_max_dev"
Prestamo_save_recompute(self, today, plazo) ==
    [self EXCEPT
        !.fecha_max_dev = {today + plazo},
        !.fecha_dev = IF self.recibio # None /\ self.fecha_dev = {}
                      THEN {today} ELSE self.fecha_dev]

\* Prestamo.save: the fields as written by super().save()
Prestamo_save(self, today, plazo) ==
    [self EXCEPT
        !.fecha_max_dev = IF self.fecha_max_dev = {}
                          THEN {today + plazo} ELSE self.fecha_max_dev,
        !.fecha_dev = IF self.recibio # None /\ self.fecha_dev = {}
                      THEN {today} ELSE self.fecha_dev]

\* act_prestamo: the Libro object after the receiver ran on it
act_prestamo(creado, instance, l) ==
    IF creado THEN [l EXCEPT !.remanente = @ - 1]
    ELSE IF instance.fecha_dev # {} THEN [l EXCEPT !.remanente = @ + 1]
    ELSE l

\* the window of counter values the model explores: the receivers themselves
\* put no limit on cant_ej and remanente
InWindow(l) ==
    /\ l.cant_ej \in -MaxCount..MaxCount
    /\ l.remanente \in -MaxCount..MaxCount

LibroDe(e) == (CHOOSE x \in ejemplares : x.id = e).libro

OptDias == {{}} \cup {{d} : d \in Dias}

\* ------------------------------------------------- Spec: atomic operations
InitDb ==
    /\ libro = [b \in Libros |-> [cant_ej |-> 0, remanente |-> 0]]
    /\ ejemplares = {}
    /\ prestamos = {}
    /\ nextEjemplar = 1
    /\ nextPrestamo = 1
    /\ plazo_max_devolucion = PlazoDefault
    /\ hoy = 1

InitConcIdle ==
    /\ pc = [w \in Writers |-> "idle"]
    /\ mem = [w \in Writers |-> [cant_ej |-> 0, remanente |-> 0]]
    /\ wej = [w \in Writers |-> [id |-> 0, libro |-> 0, nro_ejemplar |-> 0]]
    /\ creados = 0
    /\ borrados = 0
    /\ rechazados = 0
    /\ inicial = 0

InitLibroIdle ==
    /\ isbn_in = <<>>
    /\ libro_rows = {}
    /\ resultado = "none"

Init == InitDb /\ InitConcIdle /\ InitLibroIdle

\* Ejemplar(libro=b).save() followed by the post_save receiver
CreateEjemplar(b) ==
    /\ nextEjemplar <= MaxEjemplares
    /\ LET n == Ejemplar_nro(ejemplares, b)
           l == cant_ejemp_disp(TRUE, FALSE, libro[b])
       IN /\ UniqueTogether(ejemplares, b, n)
          /\ InWindow(l)
          /\ ejemplares' = ejemplares \cup
                 {[id |-> nextEjemplar, libro |-> b, nro_ejemplar |-> n]}
          /\ libro' = [libro EXCEPT ![b] = l]
    /\ nextEjemplar' = nextEjemplar + 1
    /\ UNCHANGED <<prestamos, nextPrestamo, plazo_max_devolucion, hoy>>
    /\ UNCHANGED concvars /\ UNCHANGED librovars

\* save() of an Ejemplar that already has a pk, followed by the receiver
SaveEjemplar(e) ==
    /\ e \in ejemplares
    /\ libro' = [libro EXCEPT ![e.libro] = cant_ejemp_disp(FALSE, FALSE, @)]
    /\ UNCHANGED <<ejemplares, prestamos, nextEjemplar, nextPrestamo,
                   plazo_max_devolucion, hoy>>
    /\ UNCHANGED concvars /\ UNCHANGED librovars

\* delete() of an Ejemplar followed by the post_delete receiver;
\* Prestamo.ejemplar is on_delete=PROTECT
DeleteEjemplar(e) ==
    /\ e \in ejemplares
    /\ ~ \E p \in prestamos : p.ejemplar = e.id
    /\ LET l == cant_ejemp_disp(FALSE, TRUE, libro[e.libro])
       IN /\ InWindow(l)
          /\ libro' = [libro EXCEPT ![e.libro] = l]
    /\ ejemplares' = ejemplares \ {e}
    /\ UNCHANGED <<prestamos, nextEjemplar, nextPrestamo, plazo_max_devolucion, hoy>>
    /\ UNCHANGED concvars /\ UNCHANGED librovars

\* Prestamo(ejemplar=e, recibio=r, fecha_max_dev=fm, fecha_dev=fd).save()
\* followed by the post_save receiver
CreatePrestamo(e, r, fm, fd) ==
    /\ nextPrestamo <= MaxPrestamos
    /\ e \in ejemplares
    /\ LET self == Prestamo_save([id |-> nextPrestamo, ejemplar |-> e.id, recibio |-> r,
                                  fecha_max_dev |-> fm, fecha_dev |-> fd],
                                 hoy, plazo_max_devolucion)
           l == act_prestamo(TRUE, self, libro[e.libro])
       IN /\ InWindow(l)
          /\ prestamos' = prestamos \cup {self}
          /\ libro' = [libro EXCEPT ![e.libro] = l]
    /\ nextPrestamo' = nextPrestamo + 1
    /\ UNCHANGED <<ejemplares, nextEjemplar, plazo_max_devolucion, hoy>>
    /\ UNCHANGED concvars /\ UNCHANGED librovars

\* save() of a stored Prestamo after the caller set recibio to r and,
\* when fd is a date, fecha_dev to fd
SavePrestamo(p, r, fd) ==
    /\ p \in prestamos
    /\ LET edited == [p EXCEPT !.recibio = r,
                               !.fecha_dev = IF fd = {} THEN @ ELSE fd]
           self == Prestamo_save(edited, hoy, plazo_max_devolucion)
           b == LibroDe(p.ejemplar)
           l == act_prestamo(FALSE, self, libro[b])
       IN /\ InWindow(l)
          /\ prestamos' = (prestamos \ {p}) \cup {self}
          /\ libro' = [libro EXCEPT ![b] = l]
    /\ UNCHANGED <<ejemplares, nextEjemplar, nextPrestamo, plazo_max_devolucion, hoy>>
    /\ UNCHANGED concvars /\ UNCHANGED librovars

\* delete() of a Prestamo: no receiver is connected to post_delete of Prestamo
DeletePrestamo(p) ==
    /\ p \in prestamos
    /\ prestamos' = prestamos \ {p}
    /\ UNCHANGED <<libro, ejemplares, nextEjemplar, nextPrestamo,
                   plazo_max_devolucion, hoy>>
    /\ UNCHANGED concvars /\ UNCHANGED librovars

\* the Configuracion row is edited
SetPlazo(g) ==
    /\ g # plazo_max_devolucion
    /\ plazo_max_devolucion' = g
    /\ UNCHANGED <<libro, ejemplares, prestamos, nextEjemplar, nextPrestamo, hoy>>
    /\ UNCHANGED concvars /\ UNCHANGED librovars

\* a day passes
Tick ==
    /\ hoy < MaxDay
    /\ hoy' = hoy + 1
    /\ UNCHANGED <<libro, ejemplares, prestamos, nextEjemplar, nextPrestamo,
                   plazo_max_devolucion>>
    /\ UNCHANGED concvars /\ UNCHANGED librovars

\* Spec: the Ejemplar and Prestamo operations of one day, the Configuracion
\* row left as created
Next ==
    \/ \E b \in Libros : CreateEjemplar(b)
    \/ \E e \in ejemplares : SaveEjemplar(e)
    \/ \E e \in ejemplares : DeleteEjemplar(e)
    \/ \E e \in ejemplares, r \in {None} \cup Bibliotecarios, fd \in {{}, {hoy}} :
           CreatePrestamo(e, r, {}, fd)
    \/ \E p \in prestamos, r \in {None} \cup Bibliotecarios, fd \in {{}, {hoy}} :
           SavePrestamo(p, r, fd)
    \/ \E p \in prestamos : DeletePrestamo(p)

Spec == Init /\ [][Next]_vars

\* SpecFechas: the Prestamo operations on the Ejemplar of a Libro over several
\* days, with the Configuracion row edited in between
InitFechas ==
    /\ libro = [b \in Libros |-> IF b = 1 THEN [cant_ej |-> 1, remanente |-> 1]
                                          ELSE [cant_ej |-> 0, remanente |-> 0]]
    /\ ejemplares = {[id |-> 1, libro |-> 1, nro_ejemplar |-> 1]}
    /\ prestamos = {}
    /\ nextEjemplar = 2
    /\ nextPrestamo = 1
    /\ plazo_max_devolucion = PlazoDefault
    /\ hoy = 1
    /\ InitConcIdle /\ InitLibroIdle

NextFechas ==
    \/ \E e \in ejemplares, r \in {None} \cup Bibliotecarios, fm \in OptDias, fd \in {{}, {hoy}} :
           CreatePrestamo(e, r, fm, fd)
    \/ \E p \in prestamos, r \in {None} \cup Bibliotecarios, fd \in {{}, {hoy}} :
           SavePrestamo(p, r, fd)
    \/ \E p \in prestamos : DeletePrestamo(p)
    \/ \E g \in Plazos : SetPlazo(g)
    \/ Tick

SpecFechas == InitFechas /\ [][NextFechas]_vars

\* ------------------------------------- SpecConc: one query per step
\* the Libro the writers work on
B == 1

InitConc ==
    \E k \in 0..MaxInitCopies :
        /\ libro = [b \in Libros |-> IF b = B THEN [cant_ej |-> k, remanente |-> k]
                                              ELSE [cant_ej |-> 0, remanente |-> 0]]
        /\ ejemplares = {[id |-> i, libro |-> B, nro_ejemplar |-> i] : i \in 1..k}
        /\ nextEjemplar = k + 1
        /\ inicial = k
        /\ prestamos = {}
        /\ nextPrestamo = 1
        /\ plazo_max_devolucion = PlazoDefault
        /\ hoy = 1
        /\ pc = [w \in Writers |-> "idle"]
        /\ mem = [w \in Writers |-> [cant_ej |-> 0, remanente |-> 0]]
        /\ wej = [w \in Writers |-> [id |-> 0, libro |-> 0, nro_ejemplar |-> 0]]
        /\ creados = 0
        /\ borrados = 0
        /\ rechazados = 0
        /\ InitLibroIdle

ConcUnchanged ==
    /\ UNCHANGED <<prestamos, nextPrestamo, plazo_max_devolucion, hoy, inicial>>
    /\ UNCHANGED librovars

\* Ejemplar.save, "self.libro": the writer's Libro object is read from the store
CLoad(w) ==
    /\ pc[w] = "idle"
    /\ mem' = [mem EXCEPT ![w] = libro[B]]
    /\ pc' = [pc EXCEPT ![w] = "aggregate"]
    /\ UNCHANGED <<libro, ejemplares, nextEjemplar, wej, creados, borrados, rechazados>>
    /\ ConcUnchanged

\* Ejemplar.save, the aggregate query and the assignment of nro_ejemplar
CAggregate(w) ==
    /\ pc[w] = "aggregate"
    /\ wej' = [wej EXCEPT ![w] = [id |-> 0, libro |-> B,
                                  nro_ejemplar |-> Ejemplar_nro(ejemplares, B)]]
    /\ pc' = [pc EXCEPT ![w] = "insert"]
    /\ UNCHANGED <<libro, ejemplares, nextEjemplar, mem, creados, borrados, rechazados>>
    /\ ConcUnchanged

\* Ejemplar.save, super().save(): the INSERT, rejected by unique_together when
\* the pair is already stored (IntegrityError: no post_save is sent)
CInsert(w) ==
    /\ pc[w] = "insert"
    /\ IF UniqueTogether(ejemplares, B, wej[w].nro_ejemplar)
       THEN /\ ejemplares' = ejemplares \cup {[wej[w] EXCEPT !.id = nextEjemplar]}
            /\ wej' = [wej EXCEPT ![w].id = nextEjemplar]
            /\ nextEjemplar' = nextEjemplar + 1
            /\ creados' = creados + 1
            /\ pc' = [pc EXCEPT ![w] = "post_save"]
            /\ UNCHANGED rechazados
       ELSE /\ rechazados' = rechazados + 1
            /\ pc' = [pc EXCEPT ![w] = "integrity_error"]
            /\ UNCHANGED <<ejemplares, wej, nextEjemplar, creados>>
    /\ UNCHANGED <<libro, mem, borrados>>
    /\ ConcUnchanged

\* cant_ejemp_disp with created=True: the writer's Libro object is incremented
\* and its two fields are written back
CPostSave(w) ==
    /\ pc[w] = "post_save"
    /\ libro' = [libro EXCEPT ![B] = cant_ejemp_disp(TRUE, FALSE, mem[w])]
    /\ pc' = [pc EXCEPT ![w] = "done"]
    /\ UNCHANGED <<ejemplares, nextEjemplar, mem, wej, creados, borrados, rechazados>>
    /\ ConcUnchanged

\* the writer fetches a stored Ejemplar that no other writer holds
DGet(w, e) ==
    /\ pc[w] = "idle"
    /\ e \in ejemplares
    /\ \A v \in Writers : wej[v].id # e.id
    /\ wej' = [wej EXCEPT ![w] = e]
    /\ pc' = [pc EXCEPT ![w] = "delete"]
    /\ UNCHANGED <<libro, ejemplares, nextEjemplar, mem, creados, borrados, rechazados>>
    /\ ConcUnchanged

\* instance.delete(): the DELETE
DDelete(w) ==
    /\ pc[w] = "delete"
    /\ ejemplares' = ejemplares \ {wej[w]}
    /\ borrados' = borrados + 1
    /\ pc' = [pc EXCEPT ![w] = "post_delete"]
    /\ UNCHANGED <<libro, nextEjemplar, mem, wej, creados, rechazados>>
    /\ ConcUnchanged

\* cant_ejemp_disp on post_delete, "libro = instance.libro": the Libro object
\* is read from the store
DLoad(w) ==
    /\ pc[w] = "post_delete"
    /\ mem' = [mem EXCEPT ![w] = libro[B]]
    /\ pc' = [pc EXCEPT ![w] = "post_delete_write"]
    /\ UNCHANGED <<libro, ejemplares, nextEjemplar, wej, creados, borrados, rechazados>>
    /\ ConcUnchanged

\* cant_ejemp_disp on post_delete: the decrement and the write of the two fields
DWrite(w) ==
    /\ pc[w] = "post_delete_write"
    /\ libro' = [libro EXCEPT ![B] = cant_ejemp_disp(FALSE, TRUE, mem[w])]
    /\ pc' = [pc EXCEPT ![w] = "done"]
    /\ UNCHANGED <<ejemplares, nextEjemplar, mem, wej, creados, borrados, rechazados>>
    /\ ConcUnchanged

NextConc ==
    \/ \E w \in Writers : CLoad(w)
    \/ \E w \in Writers : CAggregate(w)
    \/ \E w \in Writers : CInsert(w)
    \/ \E w \in Writers : CPostSave(w)
    \/ \E w \in Writers, e \in ejemplares : DGet(w, e)
    \/ \E w \in Writers : DDelete(w)
    \/ \E w \in Writers : DLoad(w)
    \/ \E w \in Writers : DWrite(w)

SpecConc == InitConc /\ [][NextConc]_vars

\* ------------------------ SpecLibro: the Libro class and a submitted ISBN
DigitChars == {"0", "1", "2", "3", "4", "5", "6", "7", "8", "9"}
DigitSeq == <<"0", "1", "2", "3", "4", "5", "6", "7", "8", "9">>

\* the string of n characters, all digits but for an "x" at position i (none when i = 0)
IsbnStr(n, i) == [k \in 1..n |-> IF k = i THEN "x" ELSE DigitSeq[(k % 10) + 1]]
IsbnInputs == {IsbnStr(n, i) : n \in 0..MaxIsbnLen, i \in 0..MaxIsbnLen}

\* str.isdigit(): at least one character, and every character a digit
isdigit(value) == Len(value) > 0 /\ \A k \in 1..Len(value) : value[k] \in DigitChars

\* validate_isbn13
validate_isbn13(value) ==
    IF Len(value) # 13 \/ ~ isdigit(value) THEN "ValidationError" ELSE "valid"

\* the statements of the body of class Libro that bind a name, in source order
LibroClassBody == <<
    [name |-> "SorlImageField", kind |-> "import", primary_key |-> FALSE, validators |-> {}],
    [name |-> "validate_isbn13", kind |-> "function", primary_key |-> FALSE, validators |-> {}],
    [name |-> "isbn", kind |-> "field", primary_key |-> TRUE, validators |-> {"validate_isbn13"}],
    [name |-> "titulo", kind |-> "field", primary_key |-> FALSE, validators |-> {}],
    [name |-> "cant_pag", kind |-> "field", primary_key |-> FALSE, validators |-> {}],
    [name |-> "cant_ej", kind |-> "field", primary_key |-> FALSE, validators |-> {}],
    [name |-> "remanente", kind |-> "field", primary_key |-> FALSE, validators |-> {}],
    [name |-> "genero", kind |-> "field", primary_key |-> FALSE, validators |-> {}],
    [name |-> "autores", kind |-> "field", primary_key |-> FALSE, validators |-> {}],
    [name |-> "portada", kind |-> "field", primary_key |-> FALSE, validators |-> {}],
    [name |-> "__str__", kind |-> "function", primary_key |-> FALSE, validators |-> {}],
    [name |-> "isbn", kind |-> "function", primary_key |-> FALSE, validators |-> {}],
    [name |-> "thumb_libro", kind |-> "function", primary_key |-> FALSE, validators |-> {}] >>

\* the attribute a name is bound to when the class body has run: the last binding
ClassAttr(body, name) ==
    body[SetMax({i \in DOMAIN body : body[i].name = name})]

\* the fields of the model: the class attributes that are Field objects
ModelFields(body) ==
    {body[i].name : i \in {j \in DOMAIN body : ClassAttr(body, body[j].name).kind = "field"}}

\* the primary key column: the field declared primary_key, else the automatic id
PrimaryKey(body) ==
    IF \E f \in ModelFields(body) : ClassAttr(body, f).primary_key
    THEN CHOOSE f \in ModelFields(body) : ClassAttr(body, f).primary_key
    ELSE "id"

InitLibro ==
    /\ InitDb /\ InitConcIdle
    /\ isbn_in \in IsbnInputs
    /\ libro_rows = {}
    /\ resultado = "none"

\* a Libro carrying the submitted ISBN is validated field by field and saved
SubmitLibro ==
    /\ resultado = "none"
    /\ LET failed == {f \in ModelFields(LibroClassBody) :
                         /\ "validate_isbn13" \in ClassAttr(LibroClassBody, f).validators
                         /\ validate_isbn13(isbn_in) = "ValidationError"}
       IN IF failed # {}
          THEN /\ resultado' = "ValidationError"
               /\ UNCHANGED libro_rows
          ELSE /\ resultado' = "saved"
               /\ libro_rows' = {IF PrimaryKey(LibroClassBody) = "isbn"
                                 THEN [campo |-> "isbn", valor |-> isbn_in]
                                 ELSE [campo |-> "id", valor |-> <<"1">>]}
    /\ UNCHANGED isbn_in
    /\ UNCHANGED dbvars /\ UNCHANGED concvars

NextLibro == SubmitLibro

SpecLibro == InitLibro /\ [][NextLibro]_vars

\* ------------------------------------------------------------- claims
Adeudados(b) ==
    {p \in prestamos : p.fecha_dev = {} /\ \E e \in ejemplares : e.id = p.ejemplar /\ e.libro = b}

Nros(rows, b) == {e.nro_ejemplar : e \in ejemplar_set(rows, b)}

\* C1: for every Libro, 0 <= remanente <= cant_ej in every state reached by
\* Ejemplar creations and deletions and Prestamo creations, saves and deletions.
C1_RemanenteEntreCeroYCantEj ==
    \A b \in Libros : 0 <= libro[b].remanente /\ libro[b].remanente <= libro[b].cant_ej

\* C2: when every writer has finished, the stored cant_ej and remanente equal
\* the initial value plus the creations stored minus the deletions done.
C2_SinActualizacionesPerdidas ==
    (\A w \in Writers : pc[w] \in {"done", "integrity_error"}) =>
        /\ libro[B].cant_ej = inicial + creados - borrados
        /\ libro[B].remanente = inicial + creados - borrados

\* C3: saving a stored Prestamo without return date after assigning recibio
\* sets fecha_dev to today and raises the stored remanente by exactly 1, and a
\* save of a Prestamo that already has its return date leaves remanente as it is.
C3_DevolucionSumaUnaVez ==
    [][\A p \in prestamos, r \in {None} \cup Bibliotecarios, fd \in {{}, {hoy}} :
          SavePrestamo(p, r, fd) =>
             LET b == LibroDe(p.ejemplar)
             IN /\ (p.fecha_dev = {} /\ r # None /\ fd = {}) =>
                       /\ \E q \in prestamos' : q.id = p.id /\ q.fecha_dev = {hoy}
                       /\ libro'[b].remanente = libro[b].remanente + 1
                /\ (p.fecha_dev # {}) => libro'[b].remanente = libro[b].remanente]_vars

\* C4: a save in which the return date becomes set adds 1 to remanente for the
\* return, also when that save creates the Prestamo: a Prestamo created with
\* recibio assigned leaves remanente unchanged (-1 for the loan, +1 for the return).
C4_DevolucionEnLaCreacion ==
    [][/\ \A e \in ejemplares, r \in Bibliotecarios, fd \in {{}, {hoy}} :
            CreatePrestamo(e, r, {}, fd) =>
                libro'[e.libro].remanente = libro[e.libro].remanente
       /\ \A p \in prestamos, r \in {None} \cup Bibliotecarios, fd \in {{}, {hoy}} :
            (SavePrestamo(p, r, fd) /\ p.fecha_dev = {} /\ (r # None \/ fd # {})) =>
                libro'[LibroDe(p.ejemplar)].remanente =
                    libro[LibroDe(p.ejemplar)].remanente + 1]_vars

C6_NumeracionSinCarrera ==
    /\ rechazados = 0
    /\ \A w, v \in Writers :
          (w # v /\ pc[w] = "insert" /\ pc[v] = "insert") =>
              wej[w].nro_ejemplar # wej[v].nro_ejemplar

\* C7: a created Ejemplar gets the largest nro_ejemplar stored for its Libro
\* plus 1, and 1 when the Libro has none; the Ejemplar rows of other Libros do
\* not count.
C7_NumeroSiguiente ==
    [][\A b \in Libros : CreateEjemplar(b) =>
          \E n \in ejemplares' \ ejemplares :
             /\ ejemplares' = ejemplares \cup {n}
             /\ n.libro = b
             /\ \A k \in Nros(ejemplares, b) : k < n.nro_ejemplar
             /\ Nros(ejemplares, b) = {} => n.nro_ejemplar = 1
             /\ Nros(ejemplares, b) # {} => (n.nro_ejemplar - 1) \in Nros(ejemplares, b)]_vars

\* the first Ejemplar created is deleted, and the third one created is numbered
\* 1 in Libro 1 while Libro 2 holds the second one, numbered 1 as well
C7_Witness ==
    /\ \E e \in ejemplares : e.id = 3 /\ e.libro = 1 /\ e.nro_ejemplar = 1
    /\ \E e \in ejemplares : e.id = 2 /\ e.libro = 2 /\ e.nro_ejemplar = 1
    /\ Cardinality(ejemplares) = 2

\* C8: a Prestamo created on day hoy without due date gets hoy plus the stored
\* plazo_max_devolucion, and a stored Prestamo keeps its due date in every step.
C8_FechaMaximaDevolucion ==
    [][/\ \A e \in ejemplares, r \in {None} \cup Bibliotecarios, fd \in {{}, {hoy}} :
            CreatePrestamo(e, r, {}, fd) =>
                \E q \in prestamos' \ prestamos :
                    q.fecha_max_dev = {hoy + plazo_max_devolucion}
       /\ \A p \in prestamos, q \in prestamos' :
            q.id = p.id => q.fecha_max_dev = p.fecha_max_dev]_vars

\* a Prestamo created on day 1 under the default plazo was saved on day 2, which
\* set its return date, the plazo is no longer the default, and the due date is
\* still day 1 + default
C8_Witness ==
    /\ hoy = 2
    /\ plazo_max_devolucion # PlazoDefault
    /\ \E p \in prestamos : p.fecha_max_dev = {1 + PlazoDefault} /\ p.fecha_dev = {2}

\* C9: a Libro whose ISBN is not 13 decimal digits is rejected with a validation
\* error and not stored; one whose ISBN is 13 decimal digits is stored with the
\* ISBN as primary key.
C9_IsbnValidado ==
    resultado # "none" =>
        IF Len(isbn_in) = 13 /\ \A k \in 1..Len(isbn_in) : isbn_in[k] \in DigitChars
        THEN resultado = "saved" /\ libro_rows = {[campo |-> "isbn", valor |-> isbn_in]}
        ELSE resultado = "ValidationError" /\ libro_rows = {}

\* C10: for every Libro, cant_ej is the number of its stored Ejemplar rows and
\* remanente is cant_ej minus the number of stored Prestamo rows on them that
\* have no return date.
C10_Conservacion ==
    \A b \in Libros :
        /\ libro[b].cant_ej = Cardinality(ejemplar_set(ejemplares, b))
        /\ libro[b].remanente = libro[b].cant_ej - Cardinality(Adeudados(b))

====
